---- MODULE Spec2Model ----
(***************************************************************************)
(* LitKeeper, app/utils.py: the crawl engine (download_story), the         *)
(* first-page metadata extraction it performs, and the EPUB packager       *)
(* (create_epub_file).                                                     *)
(*                                                                         *)
(* Text is modelled as a sequence of one-character strings, so that        *)
(* strip(), lower(), startswith(), join() and split() are computed the way  *)
(* Python computes them.  An optional value (Python None or a value) is a  *)
(* sequence of length at most one: None is << >>, a value v is << v >>.     *)
(***************************************************************************)
EXTENDS Integers, Sequences, FiniteSets, TLC

\* ------------------------------------------------------------------ bounds
\* Number of Locations of the site being crawled.
NumUrls == 3
\* Number of session.get calls after which the model stops exploring.
MaxFetches == 3

\* ------------------------------------------------------------ option values
None == << >>
Some(v) == << v >>

\* Python truthiness of an optional string or list: None and the empty one are falsy.
Truthy(opt) == opt # None /\ opt[1] # << >>

\* ------------------------------------------------------------------ strings
Whitespace == {" ", "\n", "\t"}

RECURSIVE LStrip(_)
LStrip(s) == IF s # << >> /\ Head(s) \in Whitespace THEN LStrip(Tail(s)) ELSE s

RECURSIVE RStrip(_)
RStrip(s) ==
    IF s # << >> /\ s[Len(s)] \in Whitespace THEN RStrip(SubSeq(s, 1, Len(s) - 1)) ELSE s

\* str.strip()
Strip(s) == RStrip(LStrip(s))

LowerChar(c) ==
    CASE c = "I" -> "i" [] c = "N" -> "n" [] c = "C" -> "c" [] c = "R" -> "r"
      [] c = "T" -> "t" [] c = "A" -> "a" [] c = "S" -> "s" [] c = "D" -> "d"
      [] c = "P" -> "p" [] c = "H" -> "h" [] c = "B" -> "b"
      [] OTHER -> c

\* str.lower()
Lower(s) == [i \in 1..Len(s) |-> LowerChar(s[i])]

\* str.startswith(prefix)
StartsWith(s, prefix) == Len(s) >= Len(prefix) /\ SubSeq(s, 1, Len(prefix)) = prefix

RECURSIVE Concat(_)
\* "".join(parts)
Concat(parts) == IF parts = << >> THEN << >> ELSE Head(parts) \o Concat(Tail(parts))

\* str(i) for a chapter index
Digit(d) == << "0", "1", "2", "3", "4", "5", "6", "7", "8", "9" >>[d + 1]
RECURSIVE IntStr(_)
IntStr(i) == IF i < 10 THEN << Digit(i) >> ELSE IntStr(i \div 10) \o << Digit(i % 10) >>

\* Membership in a Python list.
InList(x, list) == \E i \in 1..Len(list) : list[i] = x

\* ------------------------------------------------- first-page metadata
IncPrefix == << "i", "n", "c" >>
NormalizedCategory == << "I", "/", "T" >>

\* Mutant of IsIncText: the comparison without lower().
IsIncTextCaseSensitive(text) == StartsWith(text, IncPrefix)

\* text.lower().startswith("inc")
IsIncText(text) == StartsWith(Lower(text), IncPrefix)

\* story_category after the breadcrumb lookup.  breadcrumb is None when the page has
\* no BreadCrumbComponent, else the texts of its category links.
ExtractCategory(previous, breadcrumb) ==
    IF breadcrumb # None /\ Len(breadcrumb[1]) >= 2
    THEN LET category == Strip(breadcrumb[1][2])
         IN  Some(IF IsIncText(category) THEN NormalizedCategory ELSE category)
    ELSE previous

RECURSIVE FilterTags(_)
\* [tag.text.strip() for tag in tag_elements if not tag.text.strip().lower().startswith("inc")]
FilterTags(tag_elements) ==
    IF tag_elements = << >> THEN << >>
    ELSE LET text == Strip(Head(tag_elements))
         IN  (IF IsIncText(text) THEN << >> ELSE << text >>) \o FilterTags(Tail(tag_elements))

\* The category is prepended when it is truthy and not already a tag.
InjectCategory(category, tags) ==
    IF Truthy(category) /\ ~InList(category[1], tags) THEN << category[1] >> \o tags ELSE tags

ExtractTags(category, tag_elements) == InjectCategory(category, FilterTags(tag_elements))

\* ---------------------------------------------------------------- the site
URLs == 1..NumUrls
\* The Location passed to download_story.
StartUrl == 1
\* soup.find(...) found no link; also current_url = None.
NoLink == 0
\* A "Next Page" anchor without an href attribute: next_page_link["href"] raises.
NoHref == -1

\* Texts served by the page at Location u.
TitleText(u) == << "T", Digit(u) >>
DescText(u) == << "D", Digit(u) >>
SeriesText(u) == << "S", Digit(u) >>
ParaText(u, c) == << "p", Digit(u), c >>

\* The link structure of one page.  The series panel is consulted only on a page
\* without a "Next Page" link.
Links ==
    {[next_page |-> n, next_part |-> NoLink] : n \in URLs \cup {NoHref}}
    \cup {[next_page |-> NoLink, next_part |-> q] : q \in URLs \cup {NoLink}}

\* What a page shows apart from its links: the h1.headline text (None: no such
\* tag), the description node's text (None: the XPath matches nothing), whether
\* div.aa_ht exists and the texts of its <p> elements.
Bodies(u) ==
    { [h1 |-> Some(<< " " >> \o TitleText(u)), desc |-> Some(DescText(u) \o << "\n" >>),
       has_div |-> TRUE, paragraphs |-> << ParaText(u, "a") \o << " " >>, ParaText(u, "b") >>],
      [h1 |-> None, desc |-> None,
       has_div |-> TRUE, paragraphs |-> << >>],
      [h1 |-> Some(<< " " >>), desc |-> Some(<< >>),
       has_div |-> FALSE, paragraphs |-> << >>] }

\* Author, breadcrumb and tag links of the page (read on page 1 of chapter 1 only).
Metas ==
    { [author |-> None, breadcrumb |-> None, tag_elements |-> << >>],
      [author |-> Some(<< "A", "n", "n", " " >>),
       breadcrumb |-> Some(<< << "H" >>, << "I", "n", "c", "e", "s", "t" >> >>),
       tag_elements |-> << << "l", "o" >>, << "i", "n", "c" >>, << "l", "o" >> >>] }

\* The series panel of a chapter's last page: absent, or present with the text of
\* its "Series Info" link (None: no such link).
Panels(u, links) ==
    {[panel |-> TRUE, series_info |-> t] : t \in {Some(<< >>), Some(SeriesText(u))}}
    \cup (IF links.next_part = NoLink THEN {[panel |-> FALSE, series_info |-> None]}
          ELSE {[panel |-> TRUE, series_info |-> None]})

----
VARIABLES
    \* module-level configuration
    ENABLE_ACTION_LOG, ENABLE_ERROR_LOG, ENABLE_URL_LOG, ENABLE_TELEGRAM,
    \* the site: site[u] is None until u is first fetched, then Some(links of u)
    site,
    \* download_story: position and locals
    pc, story_content, current_page, story_title, story_author, story_category,
    story_tags, chapter_urls, processed_urls, series_title, chapter_titles,
    chapter_contents, chapter_descriptions, current_url, current_chapter,
    current_chapter_content, current_title, result,
    \* history: every session.get issued, the Locations started as chapters, the
    \* paragraphs served by each page of each completed chapter and of the current
    \* one, why the crawl stopped, whether time.sleep ran since the last get
    fetch_log, start_log, page_log, cur_pages, failed, slept,
    \* history: the headline, author, breadcrumb and tag links that page 1 of
    \* chapter 1 served (None before it is processed)
    page_meta,
    \* create_epub_file: its arguments, position and locals, how the cover came
    \* about and whether its file exists, the file written and the exception raised
    args, epub_pc, cover_result, cover_file, book, chapters, epub_file, epub_error,
    \* history: what the except clause of create_epub_file did, in order
    handler_log,
    \* sanitize_filename: its argument, its result, and the result of applying it
    \* to that result (None before the call)
    given_name, sanitized, resanitized

config_vars == << ENABLE_ACTION_LOG, ENABLE_ERROR_LOG, ENABLE_URL_LOG, ENABLE_TELEGRAM >>
local_vars ==
    << story_content, current_page, story_title, story_author, story_category,
       story_tags, chapter_urls, processed_urls, series_title, chapter_titles,
       chapter_contents, chapter_descriptions, current_url, current_chapter,
       current_chapter_content, current_title >>
history_vars == << fetch_log, start_log, page_log, cur_pages, slept >>
crawl_vars == << site, pc, result, failed, local_vars, history_vars, page_meta >>
epub_vars ==
    << args, epub_pc, cover_result, cover_file, book, chapters, epub_file, epub_error,
       handler_log >>
name_vars == << given_name, sanitized, resanitized >>

\* ------------------------------------------------------ observability sinks
\* log_action returns at once when disabled; enabled, its makedirs/open/write
\* either succeed or raise.
LogActionOutcomes == IF ENABLE_ACTION_LOG THEN {"ok", "raise"} ELSE {"ok"}
\* log_url: the same, under ENABLE_URL_LOG (it ends with a log_action call).
LogUrlOutcomes == IF ENABLE_URL_LOG THEN {"ok", "raise"} ELSE {"ok"}
\* log_error: the same, under ENABLE_ERROR_LOG (it ends with a log_action call).
LogErrorOutcomes == IF ENABLE_ERROR_LOG THEN {"ok", "raise"} ELSE {"ok"}

\* Whether a log_action call of the page loop raises.  The first of them, before
\* session.get, stands for them all: each is caught by the same except clause.
PageFaults == IF ENABLE_ACTION_LOG THEN {"none", "before_get"} ELSE {"none"}

\* ------------------------------------------------------------ download_story
UnknownTitle == << "U", "n", "k", "n", "o", "w", "n", " ", "T", "i", "t", "l", "e" >>
UnknownAuthor == << "U", "n", "k", "n", "o", "w", "n", " ", "A", "u", "t", "h", "o", "r" >>
UnknownChapter == << "U", "n", "k", "n", "o", "w", "n", " ", "C", "h", "a", "p", "t", "e", "r" >>
BlankLine == << "\n", "\n" >>

\* Mutant of FailureResult: the chapter titles collected so far are handed back.
PartialFailureResult == << None, None, None, None, None, Some(chapter_titles), None >>

\* return None, None, None, None, None, None, None
FailureResult == << None, None, None, None, None, None, None >>

\* The except clauses.  log_error is called and the failure tuple returned; when
\* log_error itself raises inside the page loop's handler the outer handler calls
\* it once more, and when the last log_error call raises the exception leaves
\* download_story.
Abort(cause) ==
    /\ \E outcome \in LogErrorOutcomes :
         /\ pc' = IF outcome = "ok" THEN "returned" ELSE "raised"
         /\ result' = IF outcome = "ok" THEN FailureResult ELSE result
    /\ failed' = cause

\* Mutant of MarkProcessed: the Location is not recorded.
MarkProcessedForgets(processed, u) == processed

\* processed_urls.add(current_url)
MarkProcessed(processed, u) == processed \cup {u}

\* Mutant of NewChapterBuffer: the previous chapter's text is kept.
NewChapterBufferKeeps(previous) == previous

\* current_chapter_content = ""
NewChapterBuffer(previous) == << >>

\* Mutant of NotYetProcessed: every next-chapter Location is enqueued.
NotYetProcessedSkipped(next_url, processed) == TRUE

\* Line 249: if next_url not in processed_urls
NotYetProcessed(next_url, processed) == next_url \notin processed

\* Mutant of Dequeued: the Location is read but left in the queue.
DequeuedKeeps(queue) == queue

\* Line 142: the queue after chapter_urls.pop(0)
Dequeued(queue) == Tail(queue)

\* Mutant of IsStoryStart: the first page of every chapter counts.
IsChapterStart(page, chapter) == page = 1

\* Lines 162 and 167: if current_page == 1: ... if current_chapter == 1:
IsStoryStart(page, chapter) == page = 1 /\ chapter = 1

\* Mutant of SleepsAfterPage: the delay is applied before a next page only.
SleepsBetweenPagesOnly(last) == ~last

\* Line 257: time.sleep(3) follows the if/else on the next-page link, so it runs
\* after a page that has one and after a chapter's last page alike.
SleepsAfterPage(last) == TRUE

RECURSIVE AppendParagraphs(_, _)
\* for paragraph in content_div.find_all("p"): content += paragraph.get_text(strip=True) + "\n\n"
AppendParagraphs(content, paragraphs) ==
    IF paragraphs = << >> THEN content
    ELSE AppendParagraphs(content \o Strip(Head(paragraphs)) \o BlankLine, Tail(paragraphs))

RECURSIVE CombineChapters(_, _, _)
\* for i, (title, content) in enumerate(zip(chapter_titles, chapter_contents), 1):
\*     story_content += f"\n\nChapter {i}: {title}\n\n{content}"
CombineChapters(i, titles, contents) ==
    IF titles = << >> \/ contents = << >> THEN << >>
    ELSE BlankLine \o << "C", "h", "a", "p", "t", "e", "r", " " >> \o IntStr(i) \o << ":", " " >>
         \o Head(titles) \o BlankLine \o Head(contents)
         \o CombineChapters(i + 1, Tail(titles), Tail(contents))

\* The configurations of the three ENABLE_* flags that are explored.
LogConfigs == { << TRUE, TRUE, TRUE >>, << FALSE, FALSE, FALSE >> }

\* The state in which download_story is called.
CrawlInit ==
    /\ site = [u \in URLs |-> None]
    /\ pc = "entry"
    /\ story_content = << >>
    /\ current_page = 1
    /\ story_title = UnknownTitle
    /\ story_author = UnknownAuthor
    /\ story_category = None
    /\ story_tags = << >>
    /\ chapter_urls = << >>
    /\ processed_urls = {}
    /\ series_title = None
    /\ chapter_titles = << >>
    /\ chapter_contents = << >>
    /\ chapter_descriptions = << >>
    /\ current_url = NoLink
    /\ current_chapter = 0
    /\ current_chapter_content = << >>
    /\ current_title = << >>
    /\ result = << >>
    /\ fetch_log = << >>
    /\ start_log = << >>
    /\ page_log = << >>
    /\ cur_pages = << >>
    /\ failed = "none"
    /\ slept = FALSE
    /\ page_meta = None

\* create_epub_file has not been called.
EpubIdle ==
    /\ args = << >>
    /\ epub_pc = "idle"
    /\ cover_result = "none"
    /\ cover_file = FALSE
    /\ book = << >>
    /\ chapters = << >>
    /\ epub_file = None
    /\ epub_error = None
    /\ handler_log = << >>

\* sanitize_filename has not been called.
NameIdle ==
    /\ given_name = << >>
    /\ sanitized = None
    /\ resanitized = None

Init ==
    /\ \E flags \in LogConfigs :
         /\ ENABLE_ACTION_LOG = flags[1]
         /\ ENABLE_ERROR_LOG = flags[2]
         /\ ENABLE_URL_LOG = flags[3]
    \* TELEGRAM_BOT_TOKEN and TELEGRAM_CHAT_ID are unset by default; download_story
    \* never reads the flag.
    /\ ENABLE_TELEGRAM = FALSE
    /\ CrawlInit
    /\ EpubIdle
    /\ NameIdle

\* Lines 125-139: get_session() (which logs) and the initial values of the locals.
Enter ==
    /\ pc = "entry"
    /\ \E logged \in LogActionOutcomes :
         IF logged = "raise"
         THEN /\ Abort("sink")
              /\ UNCHANGED chapter_urls
         ELSE /\ chapter_urls' = << StartUrl >>
              /\ pc' = "loop"
              /\ UNCHANGED << result, failed >>
    /\ UNCHANGED << config_vars, site, history_vars, story_content, current_page,
                    story_title, story_author, story_category, story_tags,
                    processed_urls, series_title, chapter_titles, chapter_contents,
                    chapter_descriptions, current_url, current_chapter,
                    current_chapter_content, current_title, page_meta, epub_vars, name_vars >>

\* Lines 141-149: one pass of the outer loop up to the page loop.
NextChapter ==
    /\ pc = "loop"
    /\ chapter_urls # << >>
    /\ LET popped == Head(chapter_urls) IN
       /\ chapter_urls' = Dequeued(chapter_urls)
       /\ current_url' = popped
       /\ IF popped \in processed_urls
          THEN \* continue
               /\ pc' = "loop"
               /\ UNCHANGED << processed_urls, current_chapter, current_chapter_content,
                               start_log, cur_pages, result, failed >>
          ELSE /\ processed_urls' = MarkProcessed(processed_urls, popped)
               /\ current_chapter' = Len(chapter_contents) + 1
               /\ current_chapter_content' = NewChapterBuffer(current_chapter_content)
               /\ start_log' = Append(start_log, popped)
               /\ cur_pages' = << >>
               /\ \E logged \in LogActionOutcomes, url_logged \in LogUrlOutcomes :
                    IF logged = "raise" \/ url_logged = "raise"
                    THEN Abort("sink")
                    ELSE pc' = "page" /\ UNCHANGED << result, failed >>
    /\ UNCHANGED << config_vars, site, story_content, current_page, story_title,
                    story_author, story_category, story_tags, series_title,
                    chapter_titles, chapter_contents, chapter_descriptions,
                    current_title, fetch_log, page_log, slept, page_meta, epub_vars, name_vars >>

\* The history entry of the session.get about to be issued.
Fetched == [url |-> current_url, chapter |-> current_chapter, page |-> current_page]

\* The links the page at u serves: those of its first response.
LinksAt(u) == IF site[u] = None THEN Links ELSE {site[u][1]}

\* Lines 162-258 for a response that was fetched and parsed.
ProcessPage(links, body, meta, panel) ==
    LET first == current_page = 1
        story_start == IsStoryStart(current_page, current_chapter)
        title == IF first
                 THEN (IF body.h1 # None THEN Strip(body.h1[1]) ELSE UnknownChapter)
                 ELSE current_title
        category == IF story_start
                    THEN ExtractCategory(story_category, meta.breadcrumb)
                    ELSE story_category
        content == IF body.has_div
                   THEN AppendParagraphs(current_chapter_content, body.paragraphs)
                   ELSE current_chapter_content
        no_href == links.next_page = NoHref
        more == links.next_page \in URLs
        last == links.next_page = NoLink
        capture == last /\ panel.panel /\ ~Truthy(series_title) /\ panel.series_info # None
        page_title == IF story_start THEN title ELSE story_title
        enqueue == last /\ panel.panel /\ links.next_part # NoLink
                   /\ NotYetProcessed(links.next_part, processed_urls)
    IN
    /\ site' = [site EXCEPT ![current_url] = Some(links)]
    /\ fetch_log' = Append(fetch_log, Fetched)
    /\ cur_pages' = Append(cur_pages, body.paragraphs)
    /\ current_title' = title
    /\ story_author' = IF story_start /\ meta.author # None
                       THEN Strip(meta.author[1]) ELSE story_author
    /\ story_category' = category
    /\ story_tags' = IF story_start THEN ExtractTags(category, meta.tag_elements)
                     ELSE story_tags
    /\ chapter_descriptions' =
         IF first
         THEN Append(chapter_descriptions, IF body.desc # None THEN Strip(body.desc[1]) ELSE << >>)
         ELSE chapter_descriptions
    /\ chapter_titles' = IF body.has_div /\ first THEN Append(chapter_titles, title)
                         ELSE chapter_titles
    /\ current_chapter_content' = content
    /\ current_url' = IF more THEN links.next_page ELSE IF last THEN NoLink ELSE current_url
    /\ current_page' = IF more THEN current_page + 1 ELSE IF last THEN 1 ELSE current_page
    /\ chapter_contents' = IF last THEN Append(chapter_contents, content) ELSE chapter_contents
    /\ page_log' = IF last THEN Append(page_log, cur_pages') ELSE page_log
    /\ series_title' = IF capture THEN Some(Strip(panel.series_info[1])) ELSE series_title
    /\ story_title' = IF capture THEN Strip(panel.series_info[1]) ELSE page_title
    /\ chapter_urls' = IF enqueue THEN Append(chapter_urls, links.next_part) ELSE chapter_urls
    /\ slept' = (~no_href /\ SleepsAfterPage(last))
    /\ IF no_href THEN Abort("markup")
       ELSE /\ pc' = IF last THEN "loop" ELSE "page"
            /\ UNCHANGED << result, failed >>
    /\ page_meta' = IF story_start
                    THEN Some([author |-> meta.author, breadcrumb |-> meta.breadcrumb,
                               tag_elements |-> meta.tag_elements, h1 |-> body.h1])
                    ELSE page_meta
    /\ UNCHANGED << config_vars, story_content, processed_urls, current_chapter, start_log,
                    epub_vars, name_vars >>

\* Lines 151-267: one pass of the page loop, from the fetch to the politeness
\* delay, or to the except clause that ends the crawl.
FetchPage ==
    /\ pc = "page"
    /\ Len(fetch_log) < MaxFetches
    /\ \E fault \in PageFaults, kind \in {"ok", "network_error"} :
         IF fault = "before_get"
         THEN /\ Abort("sink")
              /\ UNCHANGED << config_vars, site, local_vars, history_vars, page_meta,
                              epub_vars, name_vars >>
         ELSE IF kind = "network_error"
         THEN /\ fetch_log' = Append(fetch_log, Fetched)
              /\ slept' = FALSE
              /\ Abort("network")
              /\ UNCHANGED << config_vars, site, local_vars, start_log, page_log, cur_pages,
                              page_meta, epub_vars, name_vars >>
         ELSE \E links \in LinksAt(current_url), body \in Bodies(current_url) :
                \E meta \in (IF current_page = 1 /\ current_chapter = 1
                             THEN Metas ELSE {CHOOSE m \in Metas : m.author = None}),
                   panel \in (IF links.next_page = NoLink THEN Panels(current_url, links)
                              ELSE {[panel |-> FALSE, series_info |-> None]}) :
                  ProcessPage(links, body, meta, panel)

\* Lines 269-285: the queue is empty; the chapters are combined and returned.
Combine ==
    /\ pc = "loop"
    /\ chapter_urls = << >>
    /\ story_content' = CombineChapters(1, chapter_titles, chapter_contents)
    /\ \E logged \in LogActionOutcomes :
         IF logged = "raise"
         THEN Abort("sink")
         ELSE /\ pc' = "returned"
              /\ result' = << Some(story_content'), Some(story_title), Some(story_author),
                              story_category, Some(story_tags), Some(chapter_titles),
                              Some(chapter_descriptions) >>
              /\ UNCHANGED failed
    /\ UNCHANGED << config_vars, site, history_vars, current_page, story_title,
                    story_author, story_category, story_tags, chapter_urls,
                    processed_urls, series_title, chapter_titles, chapter_contents,
                    chapter_descriptions, current_url, current_chapter,
                    current_chapter_content, current_title, page_meta, epub_vars, name_vars >>

vars == << config_vars, crawl_vars, epub_vars, name_vars >>

Next == Enter \/ NextChapter \/ FetchPage \/ Combine

Spec == Init /\ [][Next]_vars

----
\* --------------------------------- metadata extraction over a range of pages
\* Number of tag links on the story's first page.
MaxTags == 2

RawCategories ==
    { << "i", "n", "c" >>, << "I", "n", "c", "e" >>, << "I", "N", "C" >>,
      << " ", "i", "N", "c" >>, << "i", "n" >>, << "x", "i", "n", "c" >>, << "R", "o", "m" >> }
RawTags ==
    { << "i", "n", "c" >>, << " ", "I", "n", "c" >>, << "I", "N", "C", "x" >>,
      << "R", "o", "m" >>, << "l", "o" >> }
TagLists == UNION {[1..n -> RawTags] : n \in 0..MaxTags}
WideMetas ==
    {[author |-> None, breadcrumb |-> b, tag_elements |-> t] :
        b \in {None, Some(<< << "H" >> >>)} \cup {Some(<< << "H" >>, c >>) : c \in RawCategories},
        t \in TagLists}

\* download_story about to fetch page 1 of chapter 1 (the state after Enter and
\* NextChapter, with the default configuration).
InitMeta ==
    /\ ENABLE_ACTION_LOG = TRUE /\ ENABLE_ERROR_LOG = TRUE /\ ENABLE_URL_LOG = TRUE
    /\ ENABLE_TELEGRAM = FALSE
    /\ site = [u \in URLs |-> None]
    /\ pc = "page"
    /\ story_content = << >>
    /\ current_page = 1
    /\ story_title = UnknownTitle
    /\ story_author = UnknownAuthor
    /\ story_category = None
    /\ story_tags = << >>
    /\ chapter_urls = << >>
    /\ processed_urls = {StartUrl}
    /\ series_title = None
    /\ chapter_titles = << >>
    /\ chapter_contents = << >>
    /\ chapter_descriptions = << >>
    /\ current_url = StartUrl
    /\ current_chapter = 1
    /\ current_chapter_content = << >>
    /\ current_title = << >>
    /\ result = << >>
    /\ fetch_log = << >>
    /\ start_log = << StartUrl >>
    /\ page_log = << >>
    /\ cur_pages = << >>
    /\ failed = "none"
    /\ slept = FALSE
    /\ page_meta = None
    /\ EpubIdle
    /\ NameIdle

\* The page loop's pass over page 1 of chapter 1, for a one-page story whose first
\* page carries any of the metadata of WideMetas.
StoryStartPage ==
    /\ pc = "page"
    /\ current_page = 1 /\ current_chapter = 1
    /\ \E meta \in WideMetas, body \in Bodies(current_url) :
         ProcessPage([next_page |-> NoLink, next_part |-> NoLink], body, meta,
                     [panel |-> FALSE, series_info |-> None])

NextMeta == StoryStartPage

SpecMeta == InitMeta /\ [][NextMeta]_vars

----
\* ------------------------------------------------------------ text splitting
\* Position of the first occurrence of sep in s, 0 when there is none.
Find(s, sep) ==
    LET hits == {i \in 1..(Len(s) - Len(sep) + 1) : SubSeq(s, i, i + Len(sep) - 1) = sep}
    IN  IF hits = {} THEN 0 ELSE CHOOSE i \in hits : \A j \in hits : i <= j

RECURSIVE Split(_, _)
\* s.split(sep)
Split(s, sep) ==
    LET at == Find(s, sep)
    IN  IF at = 0 THEN << s >>
        ELSE << SubSeq(s, 1, at - 1) >> \o Split(SubSeq(s, at + Len(sep), Len(s)), sep)

RECURSIVE JoinLines(_)
\* "\n".join(parts)
JoinLines(parts) ==
    IF parts = << >> THEN << >>
    ELSE IF Len(parts) = 1 THEN Head(parts)
    ELSE Head(parts) \o << "\n" >> \o JoinLines(Tail(parts))

\* ---------------------------------------------------------- sanitize_filename
AllowedChars ==
    { "a", "b", "c", "d", "e", "f", "g", "h", "i", "j", "k", "l", "m", "n", "o", "p", "q",
      "r", "s", "t", "u", "v", "w", "x", "y", "z",
      "A", "B", "C", "D", "E", "F", "G", "H", "I", "J", "K", "L", "M", "N", "O", "P", "Q",
      "R", "S", "T", "U", "V", "W", "X", "Y", "Z",
      "0", "1", "2", "3", "4", "5", "6", "7", "8", "9", ".", "_", " ", "-" }

\* Mutant of IsAllowedChar: the path separator is kept as well.
IsAllowedCharOrSlash(c) == c \in AllowedChars \cup {"/"}

IsAllowedChar(c) == c \in AllowedChars

\* re.sub(r'[^a-zA-Z0-9._ -]', '', filename)
sanitize_filename(filename) == SelectSeq(filename, IsAllowedChar)

\* ------------------------------------------------------------ create_epub_file
ChapterMarker == << "\n", "\n", "C", "h", "a", "p", "t", "e", "r", " " >>

\* format_story_content: the <p> elements, one per non-blank paragraph, stripped.
RECURSIVE StrippedNonBlank(_)
StrippedNonBlank(paragraphs) ==
    IF paragraphs = << >> THEN << >>
    ELSE (IF Strip(Head(paragraphs)) # << >> THEN << Strip(Head(paragraphs)) >> ELSE << >>)
         \o StrippedNonBlank(Tail(paragraphs))
format_story_content(content) == StrippedNonBlank(Split(content, BlankLine))

\* Mutant of DescriptionParts: a chapter without description still gets its line.
RECURSIVE DescriptionPartsKeepsEmpty(_, _)
DescriptionPartsKeepsEmpty(titles, descriptions) ==
    IF titles = << >> \/ descriptions = << >> THEN << >>
    ELSE << Head(titles) \o << ":", " " >> \o Head(descriptions) >>
         \o DescriptionPartsKeepsEmpty(Tail(titles), Tail(descriptions))

RECURSIVE DescriptionParts(_, _)
\* for t, d in zip(chapter_titles, chapter_descriptions): if d: parts.append(f"{t}: {d}")
DescriptionParts(titles, descriptions) ==
    IF titles = << >> \/ descriptions = << >> THEN << >>
    ELSE (IF Head(descriptions) # << >>
          THEN << Head(titles) \o << ":", " " >> \o Head(descriptions) >> ELSE << >>)
         \o DescriptionParts(Tail(titles), Tail(descriptions))

\* The dc:description given to the book, None when none is added.
BookDescription(chapter_titles_arg, chapter_descriptions_arg) ==
    IF Truthy(chapter_titles_arg) /\ Truthy(chapter_descriptions_arg)
    THEN LET parts == DescriptionParts(chapter_titles_arg[1], chapter_descriptions_arg[1])
         IN  IF parts # << >> THEN Some(JoinLines(parts)) ELSE None
    ELSE None

\* The optional "Story Information" chapter.
MetadataChapters(category, tags) ==
    IF Truthy(category) \/ Truthy(tags)
    THEN << [kind |-> "metadata",
             title |-> << "S", "t", "o", "r", "y", " ", "I", "n", "f", "o", "r", "m", "a", "t", "i", "o", "n" >>,
             paragraphs |-> << >>] >>
    ELSE << >>

\* The optional "Introduction" chapter: the text before the first chapter marker.
IntroChapters(chapter_texts) ==
    IF Strip(chapter_texts[1]) # << >>
    THEN << [kind |-> "intro", title |-> << "I", "n", "t", "r", "o", "d", "u", "c", "t", "i", "o", "n" >>,
             paragraphs |-> format_story_content(chapter_texts[1])] >>
    ELSE << >>

\* One pass of the main chapter loop, over the i-th text after a chapter marker.
StoryChapter(i, chapter_text) ==
    LET title_end == Find(chapter_text, BlankLine)
        heading == << "C", "h", "a", "p", "t", "e", "r", " " >>
    IN  IF title_end = 0
        THEN [kind |-> "story", title |-> heading \o IntStr(i),
              paragraphs |-> format_story_content(chapter_text)]
        ELSE [kind |-> "story", title |-> heading \o SubSeq(chapter_text, 1, title_end - 1),
              paragraphs |-> format_story_content(
                  Strip(SubSeq(chapter_text, title_end, Len(chapter_text))))]

StoryChapters(chapter_texts) ==
    [i \in 1..(Len(chapter_texts) - 1) |-> StoryChapter(i, chapter_texts[i + 1])]

\* The chapters list built by lines 474-533.
BuildChapters(category, tags, content) ==
    LET chapter_texts == Split(content, ChapterMarker)
    IN  MetadataChapters(category, tags) \o IntroChapters(chapter_texts)
        \o StoryChapters(chapter_texts)

\* Number of chapters in the title and description lists handed to create_epub_file.
MaxChapters == 2

EpubChapterTitle(i) == << "C", "h", Digit(i) >>
EpubTitleLists ==
    {None} \cup {Some([i \in 1..n |-> EpubChapterTitle(i)]) : n \in 0..MaxChapters}
EpubDescriptions == { << >>, << "A", " ", "m", "e", "e", "t", "s", " ", "B" >>,
                      << "B", " ", "l", "e", "a", "v", "e", "s" >> }
EpubDescriptionLists ==
    {None} \cup {Some(d) : d \in UNION {[1..n -> EpubDescriptions] : n \in 0..MaxChapters}}
EpubContents ==
    { << >>,
      << " ", "\n" >>,
      << "H", "i" >>,
      CombineChapters(1, << TitleText(1) >>, << ParaText(1, "a") \o BlankLine >>),
      CombineChapters(1, << TitleText(1), TitleText(2) >>,
                      << ParaText(1, "a") \o BlankLine, << >> >>),
      ChapterMarker \o << "1" >> }
EpubCategories == { None, Some(<< >>), Some(<< "R", "o", "m" >>) }
EpubTagLists == { None, Some(<< >>), Some(<< << "l", "o" >> >>) }
EpubAuthors == { << "A", "n", "n" >>, << "/" >> }
EpubCoverPaths == { None, Some(<< "c", ".", "j", "p", "g" >>) }

\* The configurations of the ENABLE_* flags explored for create_epub_file: every
\* sink and the alert enabled, or none.
EpubConfigs == { << TRUE, TRUE, TRUE, TRUE >>, << FALSE, FALSE, FALSE, FALSE >> }

\* create_epub_file is called with arguments drawn from the sets above.
InitEpub ==
    /\ \E flags \in EpubConfigs :
         /\ ENABLE_ACTION_LOG = flags[1]
         /\ ENABLE_ERROR_LOG = flags[2]
         /\ ENABLE_URL_LOG = flags[3]
         /\ ENABLE_TELEGRAM = flags[4]
    /\ CrawlInit
    /\ args \in [story_title : {TitleText(1)}, story_author : EpubAuthors,
                 story_content : EpubContents, chapter_titles : EpubTitleLists,
                 chapter_descriptions : EpubDescriptionLists,
                 cover_image_path : EpubCoverPaths, story_category : EpubCategories,
                 story_tags : EpubTagLists]
    /\ epub_pc = "entry"
    /\ cover_result = "none"
    /\ cover_file = FALSE
    /\ book = << >>
    /\ chapters = << >>
    /\ epub_file = None
    /\ epub_error = None
    /\ handler_log = << >>
    /\ NameIdle

UnknownAuthorDir == << "U", "n", "k", "n", "o", "w", "n", "_", "A", "u", "t", "h", "o", "r" >>

\* sanitize_filename(story_author) or "Unknown_Author"
AuthorDir(author) ==
    IF sanitize_filename(author) # << >> THEN sanitize_filename(author) ELSE UnknownAuthorDir

\* Whether an unguarded log_action call of a packaging step raises (the first one
\* of the step stands for them all).
EpubFaults == IF ENABLE_ACTION_LOG THEN {"none", "raise"} ELSE {"none"}

\* Lines 422-432: the first log call, the author directory (os.makedirs succeeds or
\* raises) and the cover.  Without a cover path generate_cover_image is called: it
\* succeeds, or fails and calls log_error; a failed or skipped generation leaves
\* os.path.exists(cover_image_path) to whatever is on disk.
EpubStart ==
    /\ epub_pc = "entry"
    /\ \E fault \in EpubFaults, made \in BOOLEAN :
         IF fault = "raise" \/ ~made
         THEN /\ epub_error' = Some("OSError")
              /\ epub_pc' = "handler"
              /\ UNCHANGED << cover_file, cover_result >>
         ELSE \E generated \in {"ok", "failed"}, logged \in LogErrorOutcomes, on_disk \in BOOLEAN :
                IF args.cover_image_path # None
                THEN /\ cover_result' = "supplied"
                     /\ cover_file' = on_disk
                     /\ epub_pc' = "book"
                     /\ UNCHANGED epub_error
                ELSE /\ cover_result' = generated
                     /\ cover_file' = IF generated = "ok" THEN TRUE ELSE on_disk
                     /\ IF generated = "failed" /\ logged = "raise"
                        THEN epub_error' = Some("OSError") /\ epub_pc' = "handler"
                        ELSE epub_pc' = "book" /\ UNCHANGED epub_error
    /\ UNCHANGED << config_vars, crawl_vars, name_vars, args, book, chapters, epub_file, handler_log >>

\* The dc:subject entries: the category, then every tag.
Subjects(category, tags) ==
    (IF Truthy(category) THEN << category[1] >> ELSE << >>)
    \o (IF Truthy(tags) THEN tags[1] ELSE << >>)

\* Lines 434-469: the book object and its metadata.
EpubBook ==
    /\ epub_pc = "book"
    /\ \E fault \in EpubFaults :
         IF fault = "raise"
         THEN /\ epub_error' = Some("OSError")
              /\ epub_pc' = "handler"
              /\ UNCHANGED book
         ELSE /\ book' = Some([title |-> args.story_title,
                               author |-> args.story_author,
                               subjects |-> Subjects(args.story_category, args.story_tags),
                               cover |-> cover_file,
                               description |-> BookDescription(args.chapter_titles,
                                                               args.chapter_descriptions)])
              /\ epub_pc' = "chapters"
              /\ UNCHANGED epub_error
    /\ UNCHANGED << config_vars, crawl_vars, name_vars, args, cover_file, cover_result, chapters,
                    epub_file, handler_log >>

\* Lines 474-533: the chapters list.  Each log_action call of this step follows an
\* append and sits in a try whose except calls log_error: the step is left only
\* when both raise.
EpubChapters ==
    /\ epub_pc = "chapters"
    /\ LET built == BuildChapters(args.story_category, args.story_tags, args.story_content)
       IN  \E fault \in EpubFaults, logged \in LogErrorOutcomes :
             IF built # << >> /\ fault = "raise" /\ logged = "raise"
             THEN /\ chapters' = << built[1] >>
                  /\ epub_error' = Some("OSError")
                  /\ epub_pc' = "handler"
             ELSE /\ chapters' = built
                  /\ epub_pc' = "validate"
                  /\ UNCHANGED epub_error
    /\ UNCHANGED << config_vars, crawl_vars, name_vars, args, cover_file, cover_result, book, epub_file,
                    handler_log >>

\* Lines 535-553: the validation (log_error, then ValueError), or the navigation,
\* the file (write_epub succeeds or raises), a last log call and the path returned.
EpubFinish ==
    /\ epub_pc = "validate"
    /\ IF chapters = << >>
       THEN /\ \E logged \in LogErrorOutcomes :
                 epub_error' = Some(IF logged = "ok" THEN "ValueError" ELSE "OSError")
            /\ epub_pc' = "handler"
            /\ UNCHANGED epub_file
       ELSE \E fault \in EpubFaults, written \in BOOLEAN, logged \in LogActionOutcomes :
              IF fault = "raise" \/ ~written
              THEN /\ epub_error' = Some("OSError")
                   /\ epub_pc' = "handler"
                   /\ UNCHANGED epub_file
              ELSE /\ epub_file' = Some([dir |-> AuthorDir(args.story_author),
                                         name |-> sanitize_filename(args.story_title)
                                                  \o << ".", "e", "p", "u", "b" >>])
                   /\ IF logged = "raise"
                      THEN epub_error' = Some("OSError") /\ epub_pc' = "handler"
                      ELSE epub_pc' = "returned" /\ UNCHANGED epub_error
    /\ UNCHANGED << config_vars, crawl_vars, name_vars, args, cover_file, cover_result, book, chapters,
                    handler_log >>

\* send_telegram_message: a no-op when disabled; else the POST succeeds or fails.
\* A success is followed by log_action inside the try, any exception there by
\* log_error inside the except clause: the call raises only when that log_error
\* raises.
SendTelegramOutcomes ==
    IF ~ENABLE_TELEGRAM THEN {[alert |-> "disabled", raises |-> FALSE]}
    ELSE {[alert |-> "sent", raises |-> r] :
             r \in (IF ENABLE_ACTION_LOG /\ ENABLE_ERROR_LOG THEN BOOLEAN ELSE {FALSE})}
         \cup {[alert |-> "failed", raises |-> r] :
                  r \in (IF ENABLE_ERROR_LOG THEN BOOLEAN ELSE {FALSE})}

\* Lines 555-559: log_error, send_telegram_message, raise.  An exception raised by
\* either call leaves create_epub_file in place of the one that was caught.
EpubFail ==
    /\ epub_pc = "handler"
    /\ epub_pc' = "raised"
    /\ \E logged \in LogErrorOutcomes, sent \in SendTelegramOutcomes :
         IF logged = "raise"
         THEN /\ handler_log' = << "log_error_raised" >>
              /\ epub_error' = Some("OSError")
         ELSE IF sent.raises
         THEN /\ handler_log' = << "log_error", sent.alert, "alert_raised" >>
              /\ epub_error' = Some("OSError")
         ELSE /\ handler_log' = << "log_error", sent.alert, "reraise" >>
              /\ UNCHANGED epub_error
    /\ UNCHANGED << config_vars, crawl_vars, name_vars, args, cover_file, cover_result, book, chapters,
                    epub_file >>

NextEpub == EpubStart \/ EpubBook \/ EpubChapters \/ EpubFinish \/ EpubFail

SpecEpub == InitEpub /\ [][NextEpub]_vars

----
\* --------------------------------------------- sanitize_filename over file names
\* Length of the names given to sanitize_filename.
MaxNameLen == 3

NameChars == { "a", "Z", "7", " ", ".", "_", "-", "/", ":", "!", "\t" }
JaneDoe ==
    << "J", "a", "n", "e", "/", "D", "o", "e", ":", " ", "P", "a", "r", "t", " ", "2", "!" >>
FileNames == UNION {[1..n -> NameChars] : n \in 0..MaxNameLen} \cup {JaneDoe}

\* sanitize_filename is about to be called with a name of FileNames.
InitName ==
    /\ ENABLE_ACTION_LOG = TRUE /\ ENABLE_ERROR_LOG = TRUE /\ ENABLE_URL_LOG = TRUE
    /\ ENABLE_TELEGRAM = FALSE
    /\ CrawlInit
    /\ EpubIdle
    /\ given_name \in FileNames
    /\ sanitized = None
    /\ resanitized = None

\* sanitize_filename(given_name)
Sanitize ==
    /\ sanitized = None
    /\ sanitized' = Some(sanitize_filename(given_name))
    /\ UNCHANGED << config_vars, crawl_vars, epub_vars, given_name, resanitized >>

\* sanitize_filename(sanitize_filename(given_name))
SanitizeAgain ==
    /\ sanitized # None /\ resanitized = None
    /\ resanitized' = Some(sanitize_filename(sanitized[1]))
    /\ UNCHANGED << config_vars, crawl_vars, epub_vars, given_name, sanitized >>

NextName == Sanitize \/ SanitizeAgain

SpecName == InitName /\ [][NextName]_vars

----
\* ------------------------------------------- a crawl followed by the packaging
\* A paragraph whose text holds a blank line followed by the word "Chapter".
MarkerParagraph(u) ==
    << "p", Digit(u), "\n", "\n", "C", "h", "a", "p", "t", "e", "r", " ", "9" >>

\* Pages with a headline and a content div, over a range of paragraph texts.
TripBodies(u) ==
    {[h1 |-> Some(TitleText(u)), desc |-> None, has_div |-> TRUE, paragraphs |-> ps] :
        ps \in { << >>, << ParaText(u, "a"), ParaText(u, "b") >>, << MarkerParagraph(u) >> }}

\* Pages with a next-page link, a next-part link or neither.
TripLinks ==
    {[next_page |-> n, next_part |-> NoLink] : n \in URLs}
    \cup {[next_page |-> NoLink, next_part |-> q] : q \in URLs \cup {NoLink}}

\* download_story is called with every sink disabled.
InitTrip ==
    /\ ENABLE_ACTION_LOG = FALSE /\ ENABLE_ERROR_LOG = FALSE /\ ENABLE_URL_LOG = FALSE
    /\ ENABLE_TELEGRAM = FALSE
    /\ CrawlInit
    /\ EpubIdle
    /\ NameIdle

\* The page loop's pass over a page that is fetched and parsed without error.
TripPage ==
    /\ pc = "page"
    /\ Len(fetch_log) < MaxFetches
    /\ \E links \in LinksAt(current_url) \cap TripLinks, body \in TripBodies(current_url) :
         ProcessPage(links, body, [author |-> None, breadcrumb |-> None, tag_elements |-> << >>],
                     [panel |-> links.next_part # NoLink, series_info |-> None])

\* create_epub_file is called with the tuple download_story returned.
Package ==
    /\ pc = "returned" /\ failed = "none"
    /\ epub_pc = "idle"
    /\ args' = [story_title |-> result[2][1], story_author |-> result[3][1],
                story_content |-> result[1][1], chapter_titles |-> result[6],
                chapter_descriptions |-> result[7], cover_image_path |-> None,
                story_category |-> result[4], story_tags |-> result[5]]
    /\ epub_pc' = "entry"
    /\ UNCHANGED << config_vars, crawl_vars, name_vars, cover_result, cover_file, book,
                    chapters, epub_file, epub_error, handler_log >>

NextTrip ==
    \/ Enter \/ NextChapter \/ TripPage \/ Combine
    \/ Package \/ EpubStart \/ EpubBook \/ EpubChapters \/ EpubFinish \/ EpubFail

SpecTrip == InitTrip /\ [][NextTrip]_vars

----
\* ------------------------------------------------------------------ claims
AllNone == << << >>, << >>, << >>, << >>, << >>, << >>, << >> >>
Succeeded == pc = "returned" /\ failed = "none"

\* The fetches issued for Location u while processing chapter k or a later one.
FetchesSince(u, k) == {i \in 1..Len(fetch_log) : fetch_log[i].url = u /\ fetch_log[i].chapter >= k}

\* C1: once a Location is in the visited-set (it is the k-th chapter start), the
\* crawl issues no fetch for it beyond the one that opens chapter k.
C1_NoRefetchOfVisited ==
    \A k \in 1..Len(start_log) : Cardinality(FetchesSince(start_log[k], k)) <= 1

\* C2: download_story is all-or-nothing.  Nothing is returned while it runs or when
\* it raises; after any failure the returned tuple is seven times None; a
\* successful return carries every list in full.
C2_AllOrNothing ==
    /\ pc # "returned" => result = << >>
    /\ pc = "returned" /\ failed # "none" => result = AllNone
    /\ Succeeded =>
         /\ \A i \in {1, 2, 3, 5, 6, 7} : result[i] # << >>
         /\ result[6][1] = chapter_titles
         /\ result[7][1] = chapter_descriptions
C2_Witness ==
    /\ pc = "returned" /\ failed \in {"network", "markup"}
    /\ chapter_contents # << >> /\ chapter_titles # << >>

\* The text a list of pages contributes: every paragraph of every page, in order,
\* each followed by a blank line.
PageText(paragraphs) == Concat([j \in 1..Len(paragraphs) |-> Strip(paragraphs[j]) \o << "\n", "\n" >>])
ChapterText(pages) == Concat([i \in 1..Len(pages) |-> PageText(pages[i])])

\* C3: the body of every completed chapter is the paragraphs of its pages in fetch
\* order and on-page order, each followed by a blank line, and nothing else.
C3_BodyIsPagesInOrder ==
    /\ Len(chapter_contents) = Len(page_log)
    /\ \A k \in 1..Len(chapter_contents) : chapter_contents[k] = ChapterText(page_log[k])
C3_Witness ==
    /\ Succeeded
    /\ Len(page_log) >= 2
    /\ Len(page_log[2]) = 2
    /\ \A i \in 1..2 : page_log[2][i] # << >>
    /\ page_log[1] # << << >> >>

\* C4: when every chapter spans one page, a successful crawl returns one title per
\* chapter, in discovery order, none of them empty.
C4_TitlePerChapter ==
    Succeeded /\ (\A k \in 1..Len(page_log) : Len(page_log[k]) = 1) =>
        /\ Len(chapter_titles) = Len(start_log)
        /\ \A k \in 1..Len(chapter_titles) :
             /\ chapter_titles[k] # << >>
             /\ chapter_titles[k] \in {TitleText(start_log[k]), UnknownChapter}

\* C5: on success the number of chapters equals the number of visited Locations,
\* and no Location was started as a chapter twice.
C5_ChapterPerVisited ==
    Succeeded =>
        /\ Len(chapter_contents) = Cardinality(processed_urls)
        /\ \A i, j \in 1..Len(start_log) : start_log[i] = start_log[j] => i = j
C5_Witness ==
    /\ Succeeded
    /\ Len(chapter_contents) >= 2
    /\ \E u \in processed_urls : site[u] # None /\ site[u][1].next_part \in processed_urls

\* C6: no two fetches of one crawl target the same Location.
C6_FetchedAtMostOnce ==
    \A i, j \in 1..Len(fetch_log) : fetch_log[i].url = fetch_log[j].url => i = j

\* C9: the sinks never change the outcome: download_story never raises, and it
\* returns the failure tuple only when a fetch or a page-processing step failed.
C9_SinksNeverAffectOutcome ==
    /\ pc # "raised"
    /\ pc = "returned" /\ result = AllNone => failed \in {"network", "markup"}

\* A text whose first three letters are i, n, c, each in either case.
BeginsWithInc(text) ==
    /\ Len(text) >= 3
    /\ text[1] \in {"i", "I"} /\ text[2] \in {"n", "N"} /\ text[3] \in {"c", "C"}

\* C7: on page 1 of chapter 1 a raw category that begins with "inc" in any letter
\* case becomes "I/T", and no tag of the resulting list begins with "inc" in any
\* letter case.
C7_IncNormalized ==
    page_meta # None =>
        /\ \A i \in 1..Len(story_tags) : ~BeginsWithInc(story_tags[i])
        /\ LET crumbs == page_meta[1].breadcrumb IN
           crumbs # None /\ Len(crumbs[1]) >= 2 /\ BeginsWithInc(crumbs[1][2])
               => story_category = << << "I", "/", "T" >> >>
C7_Witness ==
    /\ page_meta # None
    /\ page_meta[1].breadcrumb = << << << "H" >>, << "I", "N", "C" >> >> >>
    /\ page_meta[1].tag_elements = << << " ", "I", "n", "c" >>, << "l", "o" >> >>
    /\ story_category = << << "I", "/", "T" >> >>
    /\ story_tags = << << "I", "/", "T" >>, << "l", "o" >> >>

\* The indices of the chapters that have a description, in chapter order.
RECURSIVE Described(_, _)
Described(descriptions, n) ==
    IF n = 0 THEN << >>
    ELSE Described(descriptions, n - 1) \o (IF descriptions[n] = << >> THEN << >> ELSE << n >>)

\* C8: for title and description lists of equal length, the description field is
\* the lines "<title i>: <description i>" of the chapters i that have a
\* description, in chapter order, separated by single newlines; without any such
\* chapter there is no description field.
C8_DescriptionField ==
    book # << >> /\ args.chapter_titles # << >> /\ args.chapter_descriptions # << >>
    /\ Len(args.chapter_titles[1]) = Len(args.chapter_descriptions[1]) =>
        LET titles == args.chapter_titles[1]
            descriptions == args.chapter_descriptions[1]
            kept == Described(descriptions, Len(descriptions))
            line(k) == titles[kept[k]] \o << ":", " " >> \o descriptions[kept[k]]
            text == Concat([k \in 1..Len(kept) |->
                              (IF k > 1 THEN << "\n" >> ELSE << >>) \o line(k)])
        IN  book[1].description = IF kept = << >> THEN << >> ELSE << text >>
C8_Witness ==
    /\ book # << >>
    /\ args.chapter_titles = << << << "C", "h", "1" >>, << "C", "h", "2" >> >> >>
    /\ args.chapter_descriptions =
         << << << "A", " ", "m", "e", "e", "t", "s", " ", "B" >>,
               << "B", " ", "l", "e", "a", "v", "e", "s" >> >> >>
    /\ book[1].description =
         << << "C", "h", "1", ":", " ", "A", " ", "m", "e", "e", "t", "s", " ", "B", "\n",
               "C", "h", "2", ":", " ", "B", " ", "l", "e", "a", "v", "e", "s" >> >>

\* The number of story chapter sections of a text: its chapter markers.
RECURSIVE MarkerCount(_)
MarkerCount(text) ==
    IF Len(text) < 10 THEN 0
    ELSE IF SubSeq(text, 1, 10) = << "\n", "\n", "C", "h", "a", "p", "t", "e", "r", " " >>
         THEN 1 + MarkerCount(SubSeq(text, 11, Len(text)))
         ELSE MarkerCount(Tail(text))

\* C10: when the story content yields no story chapter, create_epub_file writes no
\* file and, once it reaches the validation, fails with ValueError, whatever the
\* category and the tags.
C10_NoChaptersNoFile ==
    epub_pc \in {"returned", "raised"} /\ MarkerCount(args.story_content) = 0 =>
        /\ epub_file = << >>
        /\ epub_pc = "raised"
        /\ epub_error \in {<< "ValueError" >>, << "OSError" >>}

\* C11: a failure inside generate_cover_image never aborts create_epub_file: the
\* step that called it goes on to build the book, and the book built after a
\* failed generation has no cover.
C11_CoverFailureNeverAborts ==
    [][ /\ (epub_pc = "entry" /\ cover_result' = "failed" => epub_pc' = "book")
        /\ (cover_result = "failed" /\ book' # book => ~book'[1].cover) ]_vars

\* C20: when create_epub_file raises, its except clause has logged the error, then
\* called send_telegram_message, then re-raised the error it caught.
C20_LoggedAlertedThenRaised ==
    epub_pc = "raised" =>
        /\ Len(handler_log) = 3
        /\ handler_log[1] = "log_error"
        /\ handler_log[2] \in {"sent", "failed", "disabled"}
        /\ handler_log[3] = "reraise"

\* The positions of a name that hold a letter, a digit, a space, '.', '_' or '-'.
AllowedPositions(name) == {i \in 1..Len(name) : name[i] \in AllowedChars}
\* The k-th smallest element of a set of positions.
NthPosition(positions, k) ==
    CHOOSE i \in positions : Cardinality({j \in positions : j <= i}) = k

\* C12: sanitize_filename returns the characters of its argument that are letters,
\* digits, space, '.', '_' or '-', all of them and in their original order; the
\* result holds allowed characters only, and sanitizing it again changes nothing.
C12_SanitizeKeepsAllowedInOrder ==
    /\ sanitized # None =>
         LET out == sanitized[1]
             kept == AllowedPositions(given_name)
         IN  /\ Len(out) = Cardinality(kept)
             /\ \A k \in 1..Len(out) : out[k] = given_name[NthPosition(kept, k)]
             /\ \A k \in 1..Len(out) : out[k] \in AllowedChars
    /\ resanitized # None => resanitized = sanitized
C12_Witness ==
    /\ given_name =
         << "J", "a", "n", "e", "/", "D", "o", "e", ":", " ", "P", "a", "r", "t", " ", "2", "!" >>
    /\ sanitized = << << "J", "a", "n", "e", "D", "o", "e", " ", "P", "a", "r", "t", " ", "2" >> >>
    /\ resanitized = sanitized

\* C13: whenever a chapter's page loop has ended, and in the successful result,
\* the title, body and description lists have one entry per processed chapter,
\* and entry k of each comes from the k-th processed chapter.
C13_CompleteChapterSlots ==
    pc = "loop" \/ Succeeded =>
        /\ Len(chapter_contents) = Len(start_log)
        /\ Len(chapter_descriptions) = Len(start_log)
        /\ Len(chapter_titles) = Len(start_log)
        /\ \A k \in 1..Len(start_log) :
             /\ chapter_titles[k] \in {TitleText(start_log[k]), UnknownChapter, << >>}
             /\ chapter_descriptions[k] \in {DescText(start_log[k]), << >>}
             /\ chapter_contents[k] = ChapterText(page_log[k])

\* The fetches issued in the page loop of chapter k.
FetchesOfChapter(k) == {i \in 1..Len(fetch_log) : fetch_log[i].chapter = k}

\* C14: on a finite site where every fetch succeeds the crawl returns.  A page
\* always serves the same links and the page loop's next Location depends on the
\* current Location's links alone, so a page loop that comes back to a Location
\* it has fetched goes round forever: a crawl that returns never fetches one
\* Location twice within one chapter's page loop.
C14_PageLoopComesToAnEnd ==
    failed = "none" =>
        \A k \in 1..Len(start_log) :
            \A i, j \in FetchesOfChapter(k) : fetch_log[i].url = fetch_log[j].url => i = j

\* C15: once the story title has been set from page 1 of chapter 1, a step changes
\* it only by capturing the first series title of the crawl: no series title had
\* been captured before the step, and the new story title is the captured one.
C15_TitleOverwrittenAtMostOnce ==
    [][ page_meta # None /\ story_title' # story_title =>
            /\ series_title = None
            /\ series_title' = Some(story_title') ]_vars

\* C16: a successful crawl that found no series title returns the story title
\* "Unknown Title" when page 1 of chapter 1 had no headline, and the story author
\* "Unknown Author" when it had no author link.
C16_UnknownDefaults ==
    Succeeded /\ page_meta # None /\ series_title = None =>
        /\ page_meta[1].h1 = None => result[2] = Some(UnknownTitle)
        /\ page_meta[1].author = None => result[3] = Some(UnknownAuthor)

\* C17: the tag list returned by a successful crawl holds no tag twice.
C17_TagsDeduplicated ==
    Succeeded =>
        LET tags == result[5][1]
        IN  \A i, j \in 1..Len(tags) : tags[i] = tags[j] => i = j

\* C18: every fetch but the first of a crawl is issued after the politeness delay
\* has run since the previous fetch, within a chapter and across chapters.
C18_DelayBetweenFetches ==
    [][ Len(fetch_log') > Len(fetch_log) /\ fetch_log # << >> => slept ]_vars
C18_Witness ==
    /\ Len(fetch_log) = 3
    /\ fetch_log[2].chapter = fetch_log[1].chapter
    /\ fetch_log[3].chapter # fetch_log[2].chapter
    /\ failed = "none"
    /\ slept

\* The heading the combined text gives to chapter k.
Heading(k, title) ==
    << "\n", "\n", "C", "h", "a", "p", "t", "e", "r", " " >> \o IntStr(k) \o << ":", " " >>
    \o title \o << "\n", "\n" >>

\* C19: the combined text of a successful crawl is one section per processed
\* chapter, in processing order: section k is "Chapter k: <title of chapter k>"
\* followed by the body of chapter k.
C19_CombinedTextSections ==
    Succeeded =>
        \E titles \in [1..Len(start_log) -> {TitleText(u) : u \in URLs} \cup {UnknownChapter, << >>}] :
            /\ \A k \in 1..Len(start_log) :
                 titles[k] \in {TitleText(start_log[k]), UnknownChapter, << >>}
            /\ result[1][1] =
                 Concat([k \in 1..Len(start_log) |->
                            Heading(k, titles[k]) \o ChapterText(page_log[k])])

\* C21: a step changes the story author, category or tag list only when it
\* processes page 1 of the first processed chapter.
C21_MetadataWrittenOnce ==
    [][ story_author' # story_author \/ story_category' # story_category
        \/ story_tags' # story_tags =>
            /\ pc = "page" /\ current_page = 1
            /\ Len(start_log) = 1 /\ cur_pages = << >> ]_vars
C21_Witness ==
    /\ Succeeded
    /\ Len(start_log) >= 2
    /\ series_title = << << "S", "2" >> >>
    /\ story_author = << "A", "n", "n" >>
    /\ story_category = << << "I", "/", "T" >> >>
    /\ story_tags = << << "I", "/", "T" >>, << "l", "o" >>, << "l", "o" >> >>

\* C22: the work queue never holds more than one Location, and it is empty while
\* a chapter's pages are being processed.
C22_QueueHoldsAtMostOne ==
    /\ Len(chapter_urls) <= 1
    /\ pc = "page" => chapter_urls = << >>
C22_Witness ==
    /\ pc = "loop"
    /\ Len(chapter_contents) = 2
    /\ Len(chapter_urls) = 1
    /\ chapter_urls[1] \notin processed_urls

\* C23: no Location of the work queue is in the visited-set, so the Location
\* popped by the outer loop is never a visited one and the pop never skips.
C23_PoppedIsUnvisited ==
    \A i \in 1..Len(chapter_urls) : chapter_urls[i] \notin processed_urls
C23_Witness ==
    /\ pc = "loop"
    /\ chapter_urls = << >>
    /\ Len(start_log) = 2
    /\ Len(chapter_contents) = 2
    /\ site[start_log[2]] = << [next_page |-> NoLink, next_part |-> start_log[1]] >>

\* The paragraphs a crawled chapter consists of: those of its pages, in order.
RECURSIVE ChapterParagraphs(_)
ChapterParagraphs(pages) ==
    IF pages = << >> THEN << >> ELSE Head(pages) \o ChapterParagraphs(Tail(pages))

IsStorySection(chapter) == chapter.kind = "story"
IsIntroSection(chapter) == chapter.kind = "intro"

\* C24: packaging the result of a successful crawl yields one story section per
\* crawled chapter, in crawl order, titled "Chapter k: <title of chapter k>" and
\* holding the paragraphs of chapter k, and no introduction section.
C24_RoundTrip ==
    epub_pc \in {"validate", "returned"} /\ Succeeded =>
        LET sections == SelectSeq(chapters, IsStorySection)
        IN  /\ SelectSeq(chapters, IsIntroSection) = << >>
            /\ Len(sections) = Len(start_log)
            /\ \A k \in 1..Len(start_log) :
                 /\ sections[k].title =
                      << "C", "h", "a", "p", "t", "e", "r", " " >> \o IntStr(k) \o << ":", " " >>
                      \o TitleText(start_log[k])
                 /\ sections[k].paragraphs = ChapterParagraphs(page_log[k])

====
